---- MODULE Spec2Model ----
(***************************************************************************)
(* A model of genomelake: the utility module (genomelake/util.py) and the  *)
(* extractors (genomelake/extractors.py).                                  *)
(*                                                                         *)
(* Array cells are float values written as strings ("0.0", "0.25", "1.0",  *)
(* "nan", ...): the program only copies, replaces and compares them.       *)
(* An array is a record [shape, dtype, data]; data is a sequence of rows,  *)
(* a row a sequence of cells (2D) or of sequences of cells (3D).           *)
(* Python's 0-based indices are kept in the program's values (char2index,  *)
(* interval coordinates); TLA+ sequences are indexed from 1.               *)
(***************************************************************************)
EXTENDS Integers, Sequences, FiniteSets, TLC

VARIABLES
    enc,     \* the last one_hot_encode_sequence call: its inputs and outcome
    fs,      \* the file system under makedirs: depth -> "absent" | "dir" | "file"
    legacy,  \* TRUE when os.makedirs rejects the exist_ok argument (TypeError)
    mk,      \* the last makedirs call: its inputs and outcome
    ext,     \* the extractor instance (its fields), or NoExt
    call,    \* the last extraction call on ext: its inputs and outcome
    fin      \* the outcome of the last close()/__del__ run on ext

vars == <<enc, fs, legacy, mk, ext, call, fin>>

----------------------------------------------------------------------------
(* Bounds *)
MaxLen == 3     \* longest sequence handed to one_hot_encode_sequence
MaxDepth == 4   \* deepest directory path handed to makedirs
MaxN == 2       \* most intervals in one batch
MaxPos == 2     \* largest interval coordinate

(* Program constants *)
NUM_SEQ_CHARS == 4

RECURSIVE SeqsOfLen(_, _)
SeqsOfLen(S, n) ==
    IF n = 0 THEN {<<>>}
    ELSE {Append(s, x) : s \in SeqsOfLen(S, n - 1), x \in S}

SeqsUpTo(S, n) == UNION {SeqsOfLen(S, k) : k \in 0..n}

\* the sequence f[1], ..., f[n] as a tuple
RECURSIVE TupFrom(_, _)
TupFrom(f, n) == IF n = 0 THEN <<>> ELSE Append(TupFrom(f, n - 1), f[n])
Tup(f) == TupFrom(f, Len(f))

Full1(n, v) == Tup([i \in 1..n |-> v])
Full2(r, c, v) == Tup([i \in 1..r |-> Full1(c, v)])
Reverse(s) == Tup([i \in 1..Len(s) |-> s[Len(s) + 1 - i]])

----------------------------------------------------------------------------
(* genomelake/util.py: char2index and one_hot_encode_sequence *)

ValidBases == {"A", "C", "G", "T", "N", "a", "c", "g", "t", "n"}
Alphabet == ValidBases \cup {"X", "-"}

NoRaise(v) == [raised |-> FALSE, value |-> v]
Raise == [raised |-> TRUE, value |-> 0]

\* a slip of char2index: the lower-case 'g' is forgotten
char2index_nolower(ch) ==
    IF ch \in {"A", "a"} THEN NoRaise(0)
    ELSE IF ch \in {"C", "c"} THEN NoRaise(1)
    ELSE IF ch \in {"G"} THEN NoRaise(2)
    ELSE IF ch \in {"T", "t"} THEN NoRaise(3)
    ELSE IF ch \in {"N", "n"} THEN NoRaise(-1)
    ELSE Raise

\* a slip of char2index: an unknown character is taken for N
char2index_lenient(ch) ==
    IF ch \in {"A", "a"} THEN NoRaise(0)
    ELSE IF ch \in {"C", "c"} THEN NoRaise(1)
    ELSE IF ch \in {"G", "g"} THEN NoRaise(2)
    ELSE IF ch \in {"T", "t"} THEN NoRaise(3)
    ELSE NoRaise(-1)

char2index(ch) ==
    IF ch \in {"A", "a"} THEN NoRaise(0)
    ELSE IF ch \in {"C", "c"} THEN NoRaise(1)
    ELSE IF ch \in {"G", "g"} THEN NoRaise(2)
    ELSE IF ch \in {"T", "t"} THEN NoRaise(3)
    ELSE IF ch \in {"N", "n"} THEN NoRaise(-1)
    ELSE Raise

ErrNone == "none"
ErrInvalidBase == "ValueError: Invalid base encountered."
ErrEncLength == "ValueError: encoded array not the same length as given seq"
ErrEncCols == "ValueError: encoded array needs to have 4 columns"

\* the loop of one_hot_encode_sequence from row `row` (1-based) on; the rows
\* written before a raise stay written (the array is filled in place)
RECURSIVE EncodeLoop(_, _, _)
EncodeLoop(seq, data, row) ==
    IF row > Len(seq) THEN [err |-> ErrNone, data |-> data]
    ELSE LET col_idx == char2index(seq[row]) IN
         IF col_idx.raised THEN [err |-> ErrInvalidBase, data |-> data]
         ELSE IF col_idx.value >= 0
              THEN EncodeLoop(seq,
                              [data EXCEPT ![row][col_idx.value + 1] = "1.0"],
                              row + 1)
              ELSE EncodeLoop(seq,
                              [data EXCEPT ![row] = Full1(Len(data[row]), "0.25")],
                              row + 1)

\* encoded: [shape |-> <<rows, cols>>, data |-> rows x cols cells]
one_hot_encode_sequence(seq, encoded) ==
    IF encoded.shape[1] # Len(seq)
    THEN [err |-> ErrEncLength, data |-> encoded.data]
    ELSE IF encoded.shape[2] # 4
    THEN [err |-> ErrEncCols, data |-> encoded.data]
    ELSE EncodeLoop(seq, encoded.data, 1)

NoEnc == [active |-> FALSE, seq |-> <<>>, shape |-> <<0, 0>>, before |-> <<>>,
          err |-> ErrNone, after |-> <<>>]

\* the arrays a caller hands to one_hot_encode_sequence for a sequence of
\* length L: the right or a wrong shape, zero-initialized or holding old values
EncodedArrays(L) ==
    {[shape |-> <<r, c>>, data |-> Full2(r, c, v)] :
        r \in {L, L + 1}, c \in {NUM_SEQ_CHARS, NUM_SEQ_CHARS - 1},
        v \in {"0.0", "1.0"}}

Encode ==
    /\ ~enc.active
    /\ \E seq \in SeqsUpTo(Alphabet, MaxLen) :
       \E encoded \in EncodedArrays(Len(seq)) :
          LET r == one_hot_encode_sequence(seq, encoded) IN
          enc' = [active |-> TRUE, seq |-> seq, shape |-> encoded.shape,
                  before |-> encoded.data, err |-> r.err, after |-> r.data]
    /\ UNCHANGED <<fs, legacy, mk, ext, call, fin>>

EncodeReturn ==
    /\ enc.active
    /\ enc' = NoEnc
    /\ UNCHANGED <<fs, legacy, mk, ext, call, fin>>

----------------------------------------------------------------------------
(* genomelake/util.py: makedirs, over os.makedirs and os.path.exists.       *)
(* The directory tree is one chain d1/d2/.../dMaxDepth; the path of depth k *)
(* is d1/.../dk, and f[k] says what is at that path.                        *)

ErrFileExists == "FileExistsError"
ErrFileNotFound == "FileNotFoundError"
ErrNotADirectory == "NotADirectoryError"

Depths == 1..MaxDepth
FsStates ==
    {f \in [Depths -> {"absent", "dir", "file"}] :
        \A k \in Depths : f[k] # "absent" => \A j \in 1..(k - 1) : f[j] = "dir"}

os_path_exists(f, k) == f[k] # "absent"
os_path_isdir(f, k) == f[k] = "dir"

os_mkdir(f, k) ==
    IF f[k] # "absent" THEN [err |-> ErrFileExists, fs |-> f]
    ELSE IF k > 1 /\ f[k - 1] = "absent" THEN [err |-> ErrFileNotFound, fs |-> f]
    ELSE IF k > 1 /\ f[k - 1] = "file" THEN [err |-> ErrNotADirectory, fs |-> f]
    ELSE [err |-> ErrNone, fs |-> [f EXCEPT ![k] = "dir"]]

\* os.makedirs of an interpreter that knows exist_ok: the missing parents
\* first, then mkdir, whose error is dropped when exist_ok and the path is
\* a directory
RECURSIVE os_makedirs(_, _, _)
os_makedirs(f, k, exist_ok) ==
    LET head == IF k > 1 /\ ~os_path_exists(f, k - 1)
                THEN os_makedirs(f, k - 1, exist_ok)
                ELSE [err |-> ErrNone, fs |-> f]
    IN  IF head.err \notin {ErrNone, ErrFileExists} THEN head
        ELSE LET made == os_mkdir(head.fs, k) IN
             IF made.err # ErrNone /\ exist_ok /\ os_path_isdir(made.fs, k)
             THEN [err |-> ErrNone, fs |-> made.fs]
             ELSE made

\* os.makedirs of an interpreter without exist_ok, as the fallback calls it
RECURSIVE os_makedirs_legacy(_, _)
os_makedirs_legacy(f, k) ==
    LET head == IF k > 1 /\ ~os_path_exists(f, k - 1)
                THEN os_makedirs_legacy(f, k - 1)
                ELSE [err |-> ErrNone, fs |-> f]
    IN  IF head.err \notin {ErrNone, ErrFileExists} THEN head
        ELSE os_mkdir(head.fs, k)

\* makedirs(path, mode, exist_ok): try the call with exist_ok; on TypeError
\* (rejects == TRUE) create the path only when it does not exist
makedirs(f, rejects, k, exist_ok) ==
    IF ~rejects THEN os_makedirs(f, k, exist_ok)
    ELSE IF ~os_path_exists(f, k) THEN os_makedirs_legacy(f, k)
    ELSE [err |-> ErrNone, fs |-> f]

NoMk == [active |-> FALSE, path |-> 1, exist_ok |-> FALSE, existed |-> "absent",
         err |-> ErrNone]

Makedirs ==
    /\ ~mk.active
    /\ \E k \in Depths, exist_ok \in BOOLEAN :
          LET r == makedirs(fs, legacy, k, exist_ok) IN
          /\ fs' = r.fs
          /\ mk' = [active |-> TRUE, path |-> k, exist_ok |-> exist_ok,
                    existed |-> fs[k], err |-> r.err]
    /\ UNCHANGED <<enc, legacy, ext, call, fin>>

MakedirsReturn ==
    /\ mk.active
    /\ mk' = NoMk
    /\ UNCHANGED <<enc, fs, legacy, ext, call, fin>>

\* the environment: another process removes the deepest entry of the chain
EnvRemove ==
    /\ ~mk.active
    /\ \E k \in Depths :
          /\ fs[k] # "absent"
          /\ k < MaxDepth => fs[k + 1] = "absent"
          /\ fs' = [fs EXCEPT ![k] = "absent"]
    /\ UNCHANGED <<enc, legacy, mk, ext, call, fin>>

\* the environment: another process creates a regular file
EnvTouch ==
    /\ ~mk.active
    /\ \E k \in Depths :
          /\ fs[k] = "absent"
          /\ k > 1 => fs[k - 1] = "dir"
          /\ fs' = [fs EXCEPT ![k] = "file"]
    /\ UNCHANGED <<enc, legacy, mk, ext, call, fin>>

----------------------------------------------------------------------------
(* genomelake/extractors.py: the data an extractor is bound to.             *)
(* An interval is [chrom, start, stop, strand], 0-based and half-open.      *)

Chroms == {"chr1", "chr2", "chrM"}    \* chrM is in no data source

IntervalsOf(chroms, strands) ==
    {iv \in [chrom : chroms, start : 0..MaxPos, stop : 0..MaxPos, strand : strands] :
        iv.start < iv.stop}

BatchesOf(ivs) == SeqsUpTo(ivs, MaxN) \ {<<>>}

\* what backend.load_directory returns: chromosome name -> array
Store1D ==
    [chr1 |-> [shape |-> <<2>>, data |-> <<"1.5", "16777217.0">>],
     chr2 |-> [shape |-> <<1>>, data |-> <<"-3.0">>]]
Store2D ==
    [chr1 |-> [shape |-> <<2, 2>>,
               data |-> << <<"1.5", "0.0">>, <<"16777217.0", "2.0">> >>],
     chr2 |-> [shape |-> <<1, 2>>, data |-> << <<"-3.0", "4.0">> >>]]
Store3D ==
    [chr1 |-> [shape |-> <<1, 1, 1>>, data |-> << << <<"1.5">> >> >>],
     chr2 |-> [shape |-> <<1, 1, 1>>, data |-> << << <<"-3.0">> >> >>]]

load_directory(datafile) ==
    CASE datafile = "store1d" -> Store1D
      [] datafile = "store2d" -> Store2D
      [] datafile = "store3d" -> Store3D

\* the sequences pysam's FastaFile serves
Genome == [chr1 |-> <<"N", "g">>, chr2 |-> <<"X">>]

\* the per-base values pyBigWig serves; "nan" where there is no coverage
Signal == [chr1 |-> <<"nan", "2.0">>, chr2 |-> <<"7.0">>]

\* numpy's conversion of a stored value to float32: 2^24 + 1 has no float32
F32(v) == IF v = "16777217.0" THEN "16777216.0" ELSE v

Min(a, b) == IF a < b THEN a ELSE b

\* a slip of the slice: the stop coordinate is taken as inclusive
Slice_inclusive(a, start, stop) ==
    SubSeq(a, Min(start, Len(a)) + 1, Min(stop + 1, Len(a)))

\* Python's slice a[start:stop] of a sequence: both ends clipped to its length
Slice(a, start, stop) == SubSeq(a, Min(start, Len(a)) + 1, Min(stop, Len(a)))

----------------------------------------------------------------------------
(* The extractor instance *)

NoExt == [kind |-> "none", failed |-> FALSE, src |-> <<>>, rank |-> 0,
          depth |-> 0, use_strand |-> FALSE, bw |-> "none"]

ErrRank == "ValueError: Can only extract from 1D/2D arrays"
ErrOpen == "RuntimeError: Received an error during file opening!"

\* ArrayExtractor.__init__: the first array of the store decides the rank
ArrayExtractor_init(datafile) ==
    LET data == load_directory(datafile)
        arr == data[CHOOSE c \in DOMAIN data : TRUE]
        shape == arr.shape
    IN  [NoExt EXCEPT !.kind = "array", !.src = data,
                      !.rank = Len(shape),
                      !.depth = IF Len(shape) >= 2 THEN shape[2] ELSE 0,
                      !.failed = Len(shape) \notin {1, 2}]

FastaExtractor_init(genome, use_strand) ==
    [NoExt EXCEPT !.kind = "fasta", !.src = genome, !.use_strand = use_strand]

\* BigwigExtractor.__init__: self.bw is set only when pyBigWig.open returns
BigwigExtractor_init(opens) ==
    [NoExt EXCEPT !.kind = "bigwig", !.src = Signal,
                  !.bw = IF opens THEN "open" ELSE "unset",
                  !.failed = ~opens]
----------------------------------------------------------------------------
(* BaseExtractor.__call__ and the three _extract methods.  An extraction    *)
(* yields [err, data, reads]: the error raised (ErrNone when none), the     *)
(* content of the output array when the method ends, and the indices of the *)
(* intervals whose fetch from the data source was attempted, in order.      *)

NoOut == [given |-> FALSE, shape |-> <<>>, dtype |-> "none", data |-> <<>>]

ErrShape == "ValueError: out array has incorrect shape"
ErrDtype == "ValueError: out array has incorrect dtype"
ErrKey == "KeyError"
ErrBroadcast == "ValueError: could not broadcast input array"
ErrBounds == "RuntimeError: Invalid interval bounds!"
ErrClosed == "RuntimeError: The bigWig file handle is not opened!"
ErrAttribute == "AttributeError: object has no attribute 'bw'"

\* numpy.zeros(shape, dtype=float32)
\* an array of the given shape (2D or 3D) holding v everywhere
Filled(shape, v) ==
    IF Len(shape) = 2 THEN Full2(shape[1], shape[2], v)
    ELSE Tup([i \in 1..shape[1] |-> Full2(shape[2], shape[3], v)])

\* numpy.zeros(shape, dtype=float32)
Zeros(shape) == Filled(shape, "0.0")

get_output_shape(e, num_intervals, width) ==
    CASE e.kind = "array" ->
            IF e.rank = 1 THEN <<num_intervals, width>>
            ELSE <<num_intervals, width, e.depth>>
      [] e.kind = "fasta" -> <<num_intervals, width, NUM_SEQ_CHARS>>
      [] e.kind = "bigwig" -> <<num_intervals, width>>

\* a slip of the validation: the dtype is looked at before the shape
check_dtype_first(e, intervals, out) ==
    LET width == intervals[1].stop - intervals[1].start
        output_shape == get_output_shape(e, Len(intervals), width)
    IN  IF ~out.given
        THEN [err |-> ErrNone, data |-> Zeros(output_shape)]
        ELSE IF out.dtype # "float32" THEN [err |-> ErrDtype, data |-> out.data]
        ELSE IF out.shape # output_shape THEN [err |-> ErrShape, data |-> out.data]
        ELSE [err |-> ErrNone, data |-> out.data]

check_or_create_output_array(e, intervals, out) ==
    LET width == intervals[1].stop - intervals[1].start
        output_shape == get_output_shape(e, Len(intervals), width)
    IN  IF ~out.given
        THEN [err |-> ErrNone, data |-> Zeros(output_shape)]
        ELSE IF out.shape # output_shape THEN [err |-> ErrShape, data |-> out.data]
        ELSE IF out.dtype # "float32" THEN [err |-> ErrDtype, data |-> out.data]
        ELSE [err |-> ErrNone, data |-> out.data]

\* numpy's out[index] = value for a value of w cells along its first axis and
\* a row of `width` cells: equal lengths, or one cell repeated
Broadcast(cells, width) ==
    IF Len(cells) = width THEN [ok |-> TRUE, cells |-> cells]
    ELSE IF Len(cells) = 1 THEN [ok |-> TRUE, cells |-> Full1(width, cells[1])]
    ELSE [ok |-> FALSE, cells |-> <<>>]

CastCells(rank, cells) ==
    IF rank = 1 THEN Tup([j \in 1..Len(cells) |-> F32(cells[j])])
    ELSE Tup([j \in 1..Len(cells) |->
                 Tup([d \in 1..Len(cells[j]) |-> F32(cells[j][d])])])

\* ArrayExtractor._mm_extract, from interval `index` (1-based) on
RECURSIVE mm_extract(_, _, _, _, _)
mm_extract(e, intervals, data, index, reads) ==
    IF index > Len(intervals) THEN [err |-> ErrNone, data |-> data, reads |-> reads]
    ELSE LET interval == intervals[index]
             fetched == Append(reads, index)
         IN  IF interval.chrom \notin DOMAIN e.src
             THEN [err |-> ErrKey, data |-> data, reads |-> fetched]
             ELSE LET value == Slice(e.src[interval.chrom].data,
                                     interval.start, interval.stop)
                      row == Broadcast(CastCells(e.rank, value), Len(data[index]))
                  IN  IF ~row.ok
                      THEN [err |-> ErrBroadcast, data |-> data, reads |-> fetched]
                      ELSE mm_extract(e, intervals,
                                      [data EXCEPT ![index] = row.cells],
                                      index + 1, fetched)

\* a slip of the reverse complement: the positions are reversed, the bases
\* are not complemented
ReverseRowsOnly(row) == Reverse(row)

\* out[index, :, :] = out[index, ::-1, ::-1]
ReverseBothAxes(row) ==
    Tup([i \in 1..Len(row) |-> Reverse(row[Len(row) + 1 - i])])

\* FastaExtractor._extract, from interval `index` (1-based) on
RECURSIVE fasta_extract(_, _, _, _, _)
fasta_extract(e, intervals, data, index, reads) ==
    IF index > Len(intervals) THEN [err |-> ErrNone, data |-> data, reads |-> reads]
    ELSE LET interval == intervals[index]
             fetched == Append(reads, index)
         IN  IF interval.chrom \notin DOMAIN e.src
             THEN [err |-> ErrKey, data |-> data, reads |-> fetched]
             ELSE LET seq == Slice(e.src[interval.chrom], interval.start, interval.stop)
                      view == [shape |-> <<Len(data[index]), NUM_SEQ_CHARS>>,
                               data |-> data[index]]
                      encd == one_hot_encode_sequence(seq, view)
                      filled == [data EXCEPT ![index] = encd.data]
                  IN  IF encd.err # ErrNone
                      THEN [err |-> encd.err, data |-> filled, reads |-> fetched]
                      ELSE IF e.use_strand /\ interval.strand = "-"
                      THEN fasta_extract(e, intervals,
                               [filled EXCEPT ![index] = ReverseBothAxes(@)],
                               index + 1, fetched)
                      ELSE fasta_extract(e, intervals, filled, index + 1, fetched)

\* a slip of nan_to_zero: nothing is replaced
nan_to_zero_noop(arr) == arr

nan_to_zero(arr) ==
    Tup([j \in 1..Len(arr) |-> IF arr[j] = "nan" THEN "0.0" ELSE arr[j]])

\* kwargs.get('nan_as_zero', True)
nan_as_zero_option(opts) == opts.nan_as_zero # "false"

\* bw.values(chrom, start, stop) of pyBigWig
bw_values(e, interval) ==
    IF e.bw # "open" THEN [err |-> ErrClosed, values |-> <<>>]
    ELSE IF interval.chrom \notin DOMAIN e.src
    THEN [err |-> ErrBounds, values |-> <<>>]
    ELSE IF interval.stop > Len(e.src[interval.chrom])
    THEN [err |-> ErrBounds, values |-> <<>>]
    ELSE [err |-> ErrNone,
          values |-> SubSeq(e.src[interval.chrom], interval.start + 1, interval.stop)]

\* the loop of BigwigExtractor._bigwig_extractor over its own array
RECURSIVE bigwig_loop(_, _, _, _, _, _)
bigwig_loop(e, intervals, opts, data, index, reads) ==
    IF index > Len(intervals) THEN [err |-> ErrNone, data |-> data, reads |-> reads]
    ELSE LET got == bw_values(e, intervals[index])
             fetched == Append(reads, index)
         IN  IF got.err # ErrNone
             THEN [err |-> got.err, data |-> data, reads |-> fetched]
             ELSE LET row == Broadcast(CastCells(1, got.values), Len(data[index])) IN
                  IF ~row.ok
                  THEN [err |-> ErrBroadcast, data |-> data, reads |-> fetched]
                  ELSE bigwig_loop(e, intervals, opts,
                           [data EXCEPT ![index] =
                               IF nan_as_zero_option(opts) THEN nan_to_zero(row.cells)
                               ELSE row.cells],
                           index + 1, fetched)

\* BigwigExtractor._extract: out[:] = _bigwig_extractor(bw, intervals, **kwargs);
\* the caller's array is written only when the loop has ended
bigwig_extract(e, intervals, opts, data) ==
    LET width == intervals[1].stop - intervals[1].start
        made == bigwig_loop(e, intervals, opts,
                            Zeros(<<Len(intervals), width>>), 1, <<>>)
    IN  IF made.err # ErrNone
        THEN [err |-> made.err, data |-> data, reads |-> made.reads]
        ELSE made

extract(e, intervals, opts, data) ==
    CASE e.kind = "array" -> mm_extract(e, intervals, data, 1, <<>>)
      [] e.kind = "fasta" -> fasta_extract(e, intervals, data, 1, <<>>)
      [] e.kind = "bigwig" -> bigwig_extract(e, intervals, opts, data)

\* a slip of __call__: an error of _extract is swallowed and the array, filled
\* as far as it got, is returned
extractor_call_swallow(e, intervals, out, opts) ==
    LET chk == check_or_create_output_array(e, intervals, out) IN
    IF chk.err # ErrNone
    THEN [err |-> chk.err, returned |-> FALSE, same |-> FALSE, data |-> <<>>,
          out_after |-> out.data, reads |-> <<>>]
    ELSE LET r == extract(e, intervals, opts, chk.data) IN
         [err |-> r.err,
          returned |-> TRUE,
          same |-> out.given,
          data |-> r.data,
          out_after |-> IF out.given THEN r.data ELSE <<>>,
          reads |-> r.reads]

\* BaseExtractor.__call__: [err, returned, same, data, out_after, reads], where
\* returned says that an array came back, same that it is the caller's own
\* array, and out_after is what the caller's array holds afterwards
extractor_call(e, intervals, out, opts) ==
    LET chk == check_or_create_output_array(e, intervals, out) IN
    IF chk.err # ErrNone
    THEN [err |-> chk.err, returned |-> FALSE, same |-> FALSE, data |-> <<>>,
          out_after |-> out.data, reads |-> <<>>]
    ELSE LET r == extract(e, intervals, opts, chk.data) IN
         [err |-> r.err,
          returned |-> r.err = ErrNone,
          same |-> r.err = ErrNone /\ out.given,
          data |-> IF r.err = ErrNone THEN r.data ELSE <<>>,
          out_after |-> IF out.given THEN r.data ELSE <<>>,
          reads |-> r.reads]
\* BigwigExtractor.close: self.bw.close(); the attribute is missing when
\* __init__ raised before setting it
close(e) ==
    IF e.bw = "unset" THEN [err |-> ErrAttribute, bw |-> e.bw]
    ELSE [err |-> ErrNone, bw |-> "closed"]

----------------------------------------------------------------------------
(* The operations on an extractor *)

NoOpts == [nan_as_zero |-> "omitted"]
NoRes == [err |-> ErrNone, returned |-> FALSE, same |-> FALSE, data |-> <<>>,
          out_after |-> <<>>, reads |-> <<>>]
NoCall == [active |-> FALSE, intervals |-> <<>>, out |-> NoOut, opts |-> NoOpts,
           res |-> NoRes]

Arr(shape, dtype, v) ==
    [given |-> TRUE, shape |-> shape, dtype |-> dtype, data |-> Filled(shape, v)]

WrongWidth(shape) == [shape EXCEPT ![2] = @ + 1]
WrongRank(shape) ==
    IF Len(shape) = 2 THEN Append(shape, NUM_SEQ_CHARS) ELSE SubSeq(shape, 1, 2)

\* the output arrays a caller may pass when `shape` is the required shape:
\* none, the right shape and dtype (zeroed, or holding old values), a wrong
\* dtype, a wrong shape, both
OutKinds == {"none", "zeroed", "used", "float64", "wide", "rank", "wide float64"}

OutArray(kind, shape) ==
    CASE kind = "none" -> NoOut
      [] kind = "zeroed" -> Arr(shape, "float32", "0.0")
      [] kind = "used" -> Arr(shape, "float32", "1.0")
      [] kind = "float64" -> Arr(shape, "float64", "0.0")
      [] kind = "wide" -> Arr(WrongWidth(shape), "float32", "0.0")
      [] kind = "rank" -> Arr(WrongRank(shape), "float32", "1.0")
      [] kind = "wide float64" -> Arr(WrongWidth(shape), "float64", "1.0")

OptsOf(e) ==
    IF e.kind = "bigwig"
    THEN {[nan_as_zero |-> o] : o \in {"omitted", "true", "false"}}
    ELSE {NoOpts}

Strands(e) == IF e.kind = "fasta" THEN {"+", "-"} ELSE {"."}

RequiredShape(e, intervals) ==
    get_output_shape(e, Len(intervals), intervals[1].stop - intervals[1].start)

ConstructArray ==
    /\ ext.kind = "none"
    /\ \E datafile \in {"store1d", "store2d", "store3d"} :
          ext' = ArrayExtractor_init(datafile)
    /\ fin' = "not run"
    /\ UNCHANGED <<enc, fs, legacy, mk, call>>

ConstructFasta ==
    /\ ext.kind = "none"
    /\ \E use_strand \in BOOLEAN : ext' = FastaExtractor_init(Genome, use_strand)
    /\ fin' = "not run"
    /\ UNCHANGED <<enc, fs, legacy, mk, call>>

ConstructBigwig ==
    /\ ext.kind = "none"
    /\ \E opens \in BOOLEAN : ext' = BigwigExtractor_init(opens)
    /\ fin' = "not run"
    /\ UNCHANGED <<enc, fs, legacy, mk, call>>

\* extractor(intervals, out, **opts) on a constructed instance
CallWith(batches, kinds) ==
    /\ ext.kind # "none"
    /\ ~ext.failed
    /\ ~call.active
    /\ \E intervals \in batches :
       \E kind \in kinds :
       \E opts \in OptsOf(ext) :
          LET out == OutArray(kind, RequiredShape(ext, intervals)) IN
          call' = [active |-> TRUE, intervals |-> intervals, out |-> out,
                   opts |-> opts,
                   res |-> extractor_call(ext, intervals, out, opts)]
    /\ UNCHANGED <<enc, fs, legacy, mk, ext, fin>>

Call == CallWith(BatchesOf(IntervalsOf(Chroms, Strands(ext))), OutKinds)

CallReturn ==
    /\ call.active
    /\ call' = NoCall
    /\ UNCHANGED <<enc, fs, legacy, mk, ext, fin>>

\* an explicit extractor.close()
Close ==
    /\ ext.kind = "bigwig"
    /\ ~ext.failed
    /\ ~call.active
    /\ LET c == close(ext) IN
          /\ ext' = [ext EXCEPT !.bw = c.bw]
          /\ fin' = IF c.err = ErrNone THEN "closed" ELSE c.err
    /\ UNCHANGED <<enc, fs, legacy, mk, call>>

\* the last reference goes away (for an instance whose __init__ raised, at
\* once); BigwigExtractor.__del__ runs close()
Discard ==
    /\ ext.kind # "none"
    /\ ~call.active
    /\ ext' = NoExt
    /\ fin' = IF ext.kind # "bigwig" THEN "not run"
              ELSE LET c == close(ext) IN
                   IF c.err = ErrNone THEN "closed" ELSE c.err
    /\ UNCHANGED <<enc, fs, legacy, mk, call>>

Init ==
    /\ enc = NoEnc
    /\ fs = [k \in Depths |-> "absent"]
    /\ legacy = FALSE
    /\ mk = NoMk
    /\ ext = NoExt
    /\ call = NoCall
    /\ fin = "not run"

Next ==
    \/ ConstructArray
    \/ ConstructFasta
    \/ ConstructBigwig
    \/ Call
    \/ CallReturn
    \/ Close
    \/ Discard

Spec == Init /\ [][Next]_vars

(* one_hot_encode_sequence alone, over every sequence and array *)
NextEncode == Encode \/ EncodeReturn
SpecEncode == Init /\ [][NextEncode]_vars

(* makedirs alone, on either kind of interpreter and any directory tree *)
InitMakedirs ==
    /\ enc = NoEnc
    /\ fs \in FsStates
    /\ legacy \in BOOLEAN
    /\ mk = NoMk
    /\ ext = NoExt
    /\ call = NoCall
    /\ fin = "not run"
NextMakedirs == Makedirs \/ MakedirsReturn \/ EnvRemove \/ EnvTouch
SpecMakedirs == InitMakedirs /\ [][NextMakedirs]_vars

(* the FASTA extractor over every genome of one chromosome, each interval   *)
(* spanning the whole chromosome                                            *)
FastaAlphabet == {"A", "C", "G", "T", "N", "a", "X"}

ConstructGenome ==
    /\ ext.kind = "none"
    /\ \E s \in SeqsUpTo(FastaAlphabet, MaxLen) \ {<<>>} :
       \E use_strand \in BOOLEAN :
          ext' = FastaExtractor_init([chr1 |-> s], use_strand)
    /\ fin' = "not run"
    /\ UNCHANGED <<enc, fs, legacy, mk, call>>

WholeIntervals(e) ==
    {[chrom |-> "chr1", start |-> 0, stop |-> Len(e.src.chr1), strand |-> s] :
        s \in {"+", "-"}}

CallWhole == CallWith(BatchesOf(WholeIntervals(ext)), {"none", "zeroed"})

NextFasta == ConstructGenome \/ CallWhole \/ CallReturn \/ Discard
SpecFasta == Init /\ [][NextFasta]_vars
----------------------------------------------------------------------------
(* Properties *)

Width(iv) == iv.stop - iv.start
EqualWidth(intervals) ==
    \A i \in 1..Len(intervals) : Width(intervals[i]) = Width(intervals[1])

\* C1: an extraction called with an output array of the wrong shape, or of
\* the right shape and a dtype other than float32, fails with a ValueError
\* (the shape's when the shape is wrong, whatever the dtype), no array comes
\* back, nothing was fetched from the data source and the caller's array
\* holds what it held.
C1_MismatchedOutFailsFirst ==
    (call.active /\ call.out.given) =>
        LET need == RequiredShape(ext, call.intervals) IN
        /\ call.out.shape # need =>
              /\ call.res.err = ErrShape
              /\ ~call.res.returned
              /\ call.res.reads = <<>>
              /\ call.res.out_after = call.out.data
        /\ (call.out.shape = need /\ call.out.dtype # "float32") =>
              /\ call.res.err = ErrDtype
              /\ ~call.res.returned
              /\ call.res.reads = <<>>
              /\ call.res.out_after = call.out.data

C1_Witness ==
    /\ call.active
    /\ call.out.given
    /\ call.out.shape # RequiredShape(ext, call.intervals)
    /\ call.out.dtype # "float32"
    /\ call.res.err = ErrShape
    /\ Len(call.intervals) = 2

\* the shape of a returned array, read off its content
ShapeOfData(rank, data) ==
    IF rank = 1 THEN <<Len(data), Len(data[1])>>
    ELSE <<Len(data), Len(data[1]), Len(data[1][1])>>

\* every interval names a chromosome of the store and lies within it
InStore(e, intervals) ==
    \A i \in 1..Len(intervals) :
        /\ intervals[i].chrom \in DOMAIN e.src
        /\ intervals[i].stop <= Len(e.src[intervals[i].chrom].data)

\* the cells start..stop-1 of the chromosome array an interval names, as
\* float32 values
StoredSlice(e, iv) ==
    CastCells(e.rank, [j \in 1..Width(iv) |-> e.src[iv.chrom].data[iv.start + j]])

ArrayResultIsSlices ==
    /\ call.res.returned
    /\ ShapeOfData(ext.rank, call.res.data) =
          IF ext.rank = 1
          THEN <<Len(call.intervals), Width(call.intervals[1])>>
          ELSE <<Len(call.intervals), Width(call.intervals[1]),
                 ext.src.chr1.shape[2]>>
    /\ \A i \in 1..Len(call.intervals) :
          call.res.data[i] = StoredSlice(ext, call.intervals[i])

\* C2 as claimed: an array extractor called with N >= 1 intervals (each
\* within its chromosome array) and no output array returns an array of shape
\* (N, W), or (N, W, D) for a 2D store, W the width of the first interval,
\* whose row i is the slice [start_i, stop_i) of the array interval i names.
C2_AnyBatchYieldsSlices ==
    (call.active /\ ext.kind = "array" /\ ~call.out.given
        /\ InStore(ext, call.intervals))
    => ArrayResultIsSlices

\* C2 amended: the same, for a batch whose intervals all have the width W of
\* the first one.
C2_EqualWidthBatchYieldsSlices ==
    (call.active /\ ext.kind = "array" /\ ~call.out.given
        /\ InStore(ext, call.intervals) /\ EqualWidth(call.intervals))
    => ArrayResultIsSlices

C2_Witness ==
    /\ call.active
    /\ ext.kind = "array"
    /\ ext.rank = 2
    /\ ~call.out.given
    /\ call.res.returned
    /\ Len(call.intervals) = 2
    /\ call.intervals[1].chrom = "chr2"
    /\ call.intervals[2].chrom = "chr1"
    /\ call.intervals[2].start = 1
    /\ call.res.data[2] = << <<"16777216.0", "2.0">> >>

\* the row the encoding gives a base
UnitRow(ch) ==
    CASE ch \in {"A", "a"} -> <<"1.0", "0.0", "0.0", "0.0">>
      [] ch \in {"C", "c"} -> <<"0.0", "1.0", "0.0", "0.0">>
      [] ch \in {"G", "g"} -> <<"0.0", "0.0", "1.0", "0.0">>
      [] ch \in {"T", "t"} -> <<"0.0", "0.0", "0.0", "1.0">>
      [] ch \in {"N", "n"} -> <<"0.25", "0.25", "0.25", "0.25">>

UpperCase(ch) ==
    CASE ch = "a" -> "A" [] ch = "c" -> "C" [] ch = "g" -> "G"
      [] ch = "t" -> "T" [] ch = "n" -> "N" [] OTHER -> ch

\* C3: one_hot_encode_sequence on a sequence over A, C, G, T, N in either
\* case and a zero-initialized (L, 4) array ends without error, row i being
\* the unit vector of base i (0.25 everywhere for N); the result is that of
\* the same sequence in upper case.
C3_OneHotRows ==
    (/\ enc.active
     /\ \A i \in 1..Len(enc.seq) : enc.seq[i] \in ValidBases
     /\ enc.shape = <<Len(enc.seq), 4>>
     /\ enc.before = Full2(Len(enc.seq), 4, "0.0"))
    => /\ enc.err = ErrNone
       /\ \A i \in 1..Len(enc.seq) : enc.after[i] = UnitRow(enc.seq[i])
       /\ enc.after =
             one_hot_encode_sequence(
                 [i \in 1..Len(enc.seq) |-> UpperCase(enc.seq[i])],
                 [shape |-> enc.shape, data |-> enc.before]).data

C3_Witness ==
    /\ enc.active
    /\ enc.seq = <<"g", "N", "t">>
    /\ enc.shape = <<3, 4>>
    /\ enc.before = Full2(3, 4, "0.0")
    /\ enc.err = ErrNone
    /\ enc.after[1] = <<"0.0", "0.0", "1.0", "0.0">>

Complement(ch) ==
    CASE ch = "A" -> "T" [] ch = "T" -> "A" [] ch = "C" -> "G" [] ch = "G" -> "C"
      [] ch = "a" -> "t" [] ch = "t" -> "a" [] ch = "c" -> "g" [] ch = "g" -> "c"
      [] OTHER -> ch

ReverseComplement(s) == [i \in 1..Len(s) |-> Complement(s[Len(s) + 1 - i])]

\* C4: with use_strand set, the row a successful extraction into a
\* zero-initialized output gives an interval of strand "-" is the one-hot
\* encoding of the reverse complement of the sequence fetched for it.
C4_MinusStrandIsReverseComplement ==
    (/\ call.active
     /\ ext.kind = "fasta"
     /\ ext.use_strand
     /\ call.out.given => call.out.data = Zeros(call.out.shape)
     /\ call.res.returned)
    => \A i \in 1..Len(call.intervals) :
          call.intervals[i].strand = "-" =>
             LET s == Slice(ext.src[call.intervals[i].chrom],
                            call.intervals[i].start, call.intervals[i].stop)
             IN  /\ call.res.data[i] =
                       [j \in 1..Len(s) |-> UnitRow(ReverseComplement(s)[j])]
                 /\ call.res.data[i] =
                       one_hot_encode_sequence(
                           ReverseComplement(s),
                           [shape |-> <<Len(s), 4>>,
                            data |-> Full2(Len(s), 4, "0.0")]).data

C4_Witness ==
    /\ call.active
    /\ ext.kind = "fasta"
    /\ ext.use_strand
    /\ call.res.returned
    /\ ext.src.chr1 = <<"A", "a", "C">>
    /\ Len(call.intervals) = 2
    /\ call.intervals[1].strand = "+"
    /\ call.intervals[2].strand = "-"
    /\ call.res.data[2] = <<UnitRow("G"), UnitRow("T"), UnitRow("T")>>

\* C5: one_hot_encode_sequence on a sequence holding a character outside
\* A, C, G, T, N (either case), wherever it stands, and an (L, 4) array fails
\* with the ValueError of an invalid base.
C5_InvalidBaseRejected ==
    (/\ enc.active
     /\ \E i \in 1..Len(enc.seq) : enc.seq[i] \notin ValidBases
     /\ enc.shape = <<Len(enc.seq), 4>>)
    => enc.err = ErrInvalidBase

C5_Witness ==
    /\ enc.active
    /\ enc.seq = <<"A", "c", "X">>
    /\ enc.shape = <<3, 4>>
    /\ enc.err = ErrInvalidBase
    /\ enc.after[2] = UnitRow("c")
\* C6: for a BigWig extractor and a batch of equal-width intervals that it
\* extracts, the result with nan_as_zero=True and the result with
\* nan_as_zero=False differ exactly where the source holds NaN (0.0 against
\* NaN) and agree elsewhere; an extraction returns the first of them when the
\* option is omitted or True, the second when it is False.
C6_NanAsZeroToggle ==
    (/\ call.active
     /\ ext.kind = "bigwig"
     /\ call.res.returned
     /\ EqualWidth(call.intervals))
    => LET asZero == extractor_call(ext, call.intervals, NoOut,
                                    [nan_as_zero |-> "true"])
           asNan == extractor_call(ext, call.intervals, NoOut,
                                   [nan_as_zero |-> "false"])
       IN  /\ asZero.returned
           /\ asNan.returned
           /\ \A i \in 1..Len(call.intervals) :
              \A j \in 1..Width(call.intervals[i]) :
                 LET iv == call.intervals[i]
                     v == ext.src[iv.chrom][iv.start + j]
                 IN  IF v = "nan"
                     THEN asZero.data[i][j] = "0.0" /\ asNan.data[i][j] = "nan"
                     ELSE asZero.data[i][j] = v /\ asNan.data[i][j] = v
           /\ call.res.data =
                 IF call.opts.nan_as_zero = "false" THEN asNan.data
                 ELSE asZero.data

C6_Witness ==
    /\ call.active
    /\ ext.kind = "bigwig"
    /\ call.res.returned
    /\ call.opts.nan_as_zero = "omitted"
    /\ call.intervals = <<[chrom |-> "chr1", start |-> 0, stop |-> 2, strand |-> "."],
                          [chrom |-> "chr1", start |-> 0, stop |-> 2, strand |-> "."]>>
    /\ call.res.data = << <<"0.0", "2.0">>, <<"0.0", "2.0">> >>

\* C7 as claimed: makedirs on a path that is already a directory ends
\* without error when exist_ok is true and fails with FileExistsError when
\* it is false, whether or not os.makedirs accepts exist_ok.
C7_ExistingPath ==
    (mk.active /\ mk.existed = "dir")
    => IF mk.exist_ok THEN mk.err = ErrNone ELSE mk.err = ErrFileExists

\* C8 as claimed: no run of close(), explicit or at destruction, raises, and
\* an extraction attempted after a close fails and returns no array.
C8_CloseIsSafe ==
    /\ fin \in {"not run", "closed"}
    /\ (call.active /\ ext.bw = "closed")
          => (call.res.err # ErrNone /\ ~call.res.returned)

\* the first interval of a batch that names no chromosome of the source
\* (0 when every interval names one)
FirstMissing(e, intervals) ==
    IF \A i \in 1..Len(intervals) : intervals[i].chrom \in DOMAIN e.src THEN 0
    ELSE CHOOSE k \in 1..Len(intervals) :
            /\ intervals[k].chrom \notin DOMAIN e.src
            /\ \A i \in 1..(k - 1) : intervals[i].chrom \in DOMAIN e.src

\* C9: when the fetch or fill of interval k fails, the call fails with that
\* error and returns no array, the intervals 1..k are the only ones fetched,
\* each once and in order; a batch naming a missing chromosome never yields
\* an array and is fetched no further than that interval.
C9_FailureAbortsBatch ==
    call.active =>
        /\ (call.res.err # ErrNone /\ call.res.reads # <<>>) =>
              /\ ~call.res.returned
              /\ call.res.data = <<>>
              /\ Len(call.res.reads) <= Len(call.intervals)
              /\ call.res.reads = [i \in 1..Len(call.res.reads) |-> i]
        /\ call.res.returned =>
              /\ call.res.err = ErrNone
              /\ call.res.reads = [i \in 1..Len(call.intervals) |-> i]
        /\ FirstMissing(ext, call.intervals) > 0 =>
              /\ ~call.res.returned
              /\ call.res.err # ErrNone
              /\ Len(call.res.reads) <= FirstMissing(ext, call.intervals)

C9_Witness ==
    /\ call.active
    /\ ext.kind = "fasta"
    /\ Len(call.intervals) = 2
    /\ call.intervals[1].chrom = "chr2"
    /\ call.res.err = ErrInvalidBase
    /\ call.res.reads = <<1>>
    /\ ~call.res.returned

\* C10 as claimed: a successful extraction of an equal-width batch into a
\* float32 array of the required shape returns that array, holding what the
\* same extraction returns when no array is passed, whatever it held before.
C10_SuppliedArrayResult ==
    (/\ call.active
     /\ call.res.returned
     /\ call.out.given
     /\ EqualWidth(call.intervals))
    => /\ call.res.same
       /\ call.res.data = call.res.out_after
       /\ call.res.data =
             extractor_call(ext, call.intervals, NoOut, call.opts).data
====
